---- MODULE Spec2Model ----
(***************************************************************************)
(* A model of bfc's front end: the BF parser (src/src/bfir.rs) and the     *)
(* compile-time speculative interpreter (src/src/execution.rs).            *)
(*                                                                         *)
(* The interpreter is modelled as a state machine: the recursion of        *)
(* execute_inner is an explicit stack of frames, and every action is one   *)
(* pass through its driver loop (one arm of the match plus the trailing    *)
(* `steps_left -= 1`), a return from it, or the caller's handling of a     *)
(* returned loop body.  The parser is a pure function and is modelled as   *)
(* recursive operators applied by one action.                              *)
(***************************************************************************)
EXTENDS Integers, Sequences, FiniteSets, TLC

VARIABLES
    instrs,       \* execute's argument: the program being speculated
    steps,        \* execute's argument: the step budget
    stack,        \* the live invocations of execute_inner, innermost last
    ret,          \* the (state, outcome) pair an invocation has just returned
    pc,           \* "running", "done" (execute returned) or "panicked"
    final_state,  \* what execute returned
    source,       \* parse's argument
    parsed        \* parse's result

vars == <<instrs, steps, stack, ret, pc, final_state, source, parsed>>

-----------------------------------------------------------------------------
(* Bounds of the model. *)

\* Programs have at most this many instructions, loop bodies included.
MaxNodes == 4
\* Loops nest at most this deep.
MaxDepth == 2
\* Step budgets run from 0 to this.
MaxSteps == 5
\* Source texts have at most this many characters.
MaxSrcLen == 5
\* Steps granted to the reference semantics when a claim compares runs.
MaxFuel == 8
\* The largest budget a zeroing loop is run with; 518 steps get the longest
\* run of the model, 255 iterations after seven other instructions, done.
MaxZeroingSteps == 600

\* Cells are 8 bits wide (u8 in execution.rs).
CellModulus == 256

-----------------------------------------------------------------------------
(* The IR: bfir.rs, enum Instruction.  Every instruction is a record of    *)
(* the same shape; `amount` is unused by Read, Write and Loop, `body` by   *)
(* everything but Loop.  execution.rs has no arm for MultiplyMove, so the  *)
(* programs given to execute hold none.                                    *)

Increment(amount) == [op |-> "Increment", amount |-> amount, body |-> <<>>]
PointerIncrement(amount) == [op |-> "PointerIncrement", amount |-> amount, body |-> <<>>]
Read == [op |-> "Read", amount |-> 0, body |-> <<>>]
Write == [op |-> "Write", amount |-> 0, body |-> <<>>]
Loop(body) == [op |-> "Loop", amount |-> 0, body |-> body]
Set(amount) == [op |-> "Set", amount |-> amount, body |-> <<>>]

\* The instructions without a body that the model's programs are built from.
Leaves ==
    { Increment(1), Increment(-1), PointerIncrement(1), PointerIncrement(-1),
      Read, Write, Set(2) }

\* Where a program's shape leaves an instruction without a body open.
Hole == [op |-> "Hole", amount |-> 0, body |-> <<>>]

RECURSIVE ShapesOfSize(_, _)
\* The shapes of all programs of exactly n instructions (bodies included)
\* nested <= d deep: the loops, with a Hole for every other instruction.
ShapesOfSize(n, d) ==
    IF n = 0 THEN { <<>> }
    ELSE UNION { { <<i>> \o rest :
                     i \in (IF k = 1
                            THEN { Hole } \cup (IF d > 0 THEN { Loop(<<>>) } ELSE {})
                            ELSE IF d > 0
                                 THEN { Loop(b) : b \in ShapesOfSize(k - 1, d - 1) }
                                 ELSE {}),
                     rest \in ShapesOfSize(n - k, d) } : k \in 1..n }

RECURSIVE Holes(_)
\* The number of Holes of a shape.
Holes(shape) ==
    IF shape = <<>> THEN 0
    ELSE (IF shape[1].op = "Hole" THEN 1 ELSE Holes(shape[1].body))
         + Holes(Tail(shape))

RECURSIVE Fill(_, _, _)
\* The program of this shape whose Holes hold leaves[k + 1], leaves[k + 2],
\* ... in the order of the text.
Fill(shape, k, leaves) ==
    IF shape = <<>> THEN <<>>
    ELSE << IF shape[1].op = "Hole" THEN leaves[k + 1]
            ELSE Loop(Fill(shape[1].body, k, leaves)) >>
         \o Fill(Tail(shape), k + Holes(<< shape[1] >>), leaves)

-----------------------------------------------------------------------------
(* bounds.rs is not among the sources; highest_cell_index follows the      *)
(* description of the bounds analyzer: a PointerIncrement moves the        *)
(* running offset, a Loop contributes no net movement but its body's       *)
(* reach counts from the current offset, and the running maximum never     *)
(* drops below zero.                                                       *)

Max(a, b) == IF a >= b THEN a ELSE b

RECURSIVE MovementFrom(_, _, _, _)
\* <<highest offset reached, net offset>> of is[i..], entered at `offset`.
MovementFrom(is, i, offset, highest) ==
    IF i > Len(is) THEN <<highest, offset>>
    ELSE LET instr == is[i] IN
         IF instr.op = "PointerIncrement"
         THEN MovementFrom(is, i + 1, offset + instr.amount,
                           Max(highest, offset + instr.amount))
         ELSE IF instr.op = "Loop"
         THEN MovementFrom(is, i + 1, offset,
                           Max(highest, offset + MovementFrom(instr.body, 1, 0, 0)[1]))
         ELSE MovementFrom(is, i + 1, offset, highest)

highest_cell_index(is) == MovementFrom(is, 1, 0, 0)[1]

-----------------------------------------------------------------------------
(* execution.rs *)

\* enum Outcome.  `remaining` is Completed's payload, 0 otherwise.
Completed(n) == [kind |-> "Completed", remaining |-> n]
ReachedRuntimeValue == [kind |-> "ReachedRuntimeValue", remaining |-> 0]
RuntimeError == [kind |-> "RuntimeError", remaining |-> 0]
OutOfSteps == [kind |-> "OutOfSteps", remaining |-> 0]

NoRet == [state |-> <<>>, outcome |-> [kind |-> "None", remaining |-> 0]]
Returned(state, outcome) == [state |-> state, outcome |-> outcome]

Zeros(n) == [i \in 1..n |-> 0]

\* execute, lines 35-37: the all-zero tape and the initial state.
InitialState(is) ==
    [instr_ptr |-> 0,
     cells |-> Zeros(highest_cell_index(is) + 1),
     cell_ptr |-> 0,
     outputs |-> <<>>]

\* wrapping_add on a cell wider than any count the model reaches.
wrapping_add_NoWrap(cell, amount) == cell + amount

\* u8::wrapping_add.
wrapping_add(cell, amount) == (cell + amount) % CellModulus

\* The cell under the pointer: state.cells[state.cell_ptr as usize].
CurrentCell(state) == state.cells[state.cell_ptr + 1]

\* WhileCond without the test of the budget.
WhileCond_NoBudgetCheck(f) ==
    f.state.instr_ptr < Len(f.instrs)

\* Line 47: the driver loop's condition.
WhileCond(f) ==
    f.state.instr_ptr < Len(f.instrs) /\ f.steps_left > 0

\* PointerOutOfRange without the test against zero.
PointerOutOfRange_NoLowerCheck(new_cell_ptr, cells) ==
    new_cell_ptr >= Len(cells)

\* PointerOutOfRange with the upper test off by one.
PointerOutOfRange_OffByOne(new_cell_ptr, cells) ==
    new_cell_ptr < 0 \/ new_cell_ptr > Len(cells)

\* Line 61: the target of a pointer move is off the tape.
PointerOutOfRange(new_cell_ptr, cells) ==
    new_cell_ptr < 0 \/ new_cell_ptr >= Len(cells)

\* Line 83: the scratch state a loop body runs on.
loop_body_state(state) == [state EXCEPT !.instr_ptr = 0]

\* Lines 87-89: a finished iteration's side effects are stored.
CommitIteration(state, state_after) ==
    [state EXCEPT !.cells = state_after.cells,
                  !.outputs = state_after.outputs,
                  !.cell_ptr = state_after.cell_ptr]

\* AbandonIteration storing the unfinished body's side effects all the same.
AbandonIteration_KeepsBodyEffects(state, state_after) ==
    CommitIteration(state, state_after)

\* AbandonIteration handing back the body's own state.
AbandonIteration_ReturnsBodyState(state, state_after) == state_after

\* Line 95: what the caller returns when the body could not be evaluated.
AbandonIteration(state, state_after) == state

\* ExitOutcome without the test for zero.
ExitOutcome_AlwaysCompleted(steps_left) == Completed(steps_left)

\* Lines 104-108: the outcome of an invocation whose driver loop has ended.
ExitOutcome(steps_left) ==
    IF steps_left = 0 THEN OutOfSteps ELSE Completed(steps_left)

\* Line 101, `steps_left -= 1` on a u64: the subtraction is checked, and a
\* failed check ends the program.
Underflows(steps_left) == steps_left < 1
\* StepsAfterPass without the decrement.
StepsAfterPass_Free(steps_left) == steps_left
StepsAfterPass(steps_left) == IF Underflows(steps_left) THEN 0 ELSE steps_left - 1

Top == stack[Len(stack)]
Below == SubSeq(stack, 1, Len(stack) - 1)
Frame(is, state, steps_left) ==
    [instrs |-> is, state |-> state, steps_left |-> steps_left]
CurrentInstr(f) == f.instrs[f.state.instr_ptr + 1]

\* An invocation is at the head of its driver loop, about to run `op`.
AtInstr(op) ==
    /\ pc = "running"
    /\ ret = NoRet
    /\ stack # <<>>
    /\ WhileCond(Top)
    /\ CurrentInstr(Top).op = op

\* The end of a pass that ran a match arm to its end: the frame's state is
\* replaced and line 101 takes one step off.
EndPass(state, steps_left) ==
    /\ stack' = Below \o << Frame(Top.instrs, state, StepsAfterPass(steps_left)) >>
    /\ pc' = IF Underflows(steps_left) THEN "panicked" ELSE pc
    /\ ret' = NoRet
    /\ UNCHANGED <<instrs, steps, final_state, source, parsed>>

\* An early `return (state, outcome)` or the return after the driver loop.
ReturnFromInner(state, outcome) ==
    /\ stack' = Below
    /\ ret' = Returned(state, outcome)
    /\ UNCHANGED <<instrs, steps, pc, final_state, source, parsed>>

\* Lines 50-53.
ExecIncrement ==
    /\ AtInstr("Increment")
    /\ LET s == Top.state IN
       EndPass([s EXCEPT !.cells[s.cell_ptr + 1] =
                            wrapping_add(@, CurrentInstr(Top).amount),
                         !.instr_ptr = @ + 1],
               Top.steps_left)

\* Lines 54-57.
ExecSet ==
    /\ AtInstr("Set")
    /\ LET s == Top.state IN
       EndPass([s EXCEPT !.cells[s.cell_ptr + 1] = CurrentInstr(Top).amount,
                         !.instr_ptr = @ + 1],
               Top.steps_left)

\* Lines 58-67, the else branch: the pointer moves.
ExecPointerIncrement ==
    /\ AtInstr("PointerIncrement")
    /\ LET s == Top.state
           new_cell_ptr == s.cell_ptr + CurrentInstr(Top).amount IN
       /\ ~PointerOutOfRange(new_cell_ptr, s.cells)
       /\ EndPass([s EXCEPT !.cell_ptr = new_cell_ptr, !.instr_ptr = @ + 1],
                  Top.steps_left)

\* Lines 61-62: the move would leave the tape.
PointerRuntimeError ==
    /\ AtInstr("PointerIncrement")
    /\ LET s == Top.state
           new_cell_ptr == s.cell_ptr + CurrentInstr(Top).amount IN
       /\ PointerOutOfRange(new_cell_ptr, s.cells)
       /\ ReturnFromInner(s, RuntimeError)

\* Lines 68-72.
ExecWrite ==
    /\ AtInstr("Write")
    /\ LET s == Top.state IN
       EndPass([s EXCEPT !.outputs = Append(@, CurrentCell(s)),
                         !.instr_ptr = @ + 1],
               Top.steps_left)

\* Lines 73-75.
ExecRead ==
    /\ AtInstr("Read")
    /\ ReturnFromInner(Top.state, ReachedRuntimeValue)

\* Lines 77-80: the current cell is zero, the loop is stepped over.
LoopSkip ==
    /\ AtInstr("Loop")
    /\ CurrentCell(Top.state) = 0
    /\ EndPass([Top.state EXCEPT !.instr_ptr = @ + 1], Top.steps_left)

\* Lines 83-84: the body is run by a nested invocation on a clone.
LoopEnter ==
    /\ AtInstr("Loop")
    /\ CurrentCell(Top.state) # 0
    /\ stack' = stack \o << Frame(CurrentInstr(Top).body,
                                  loop_body_state(Top.state),
                                  Top.steps_left) >>
    /\ UNCHANGED <<instrs, steps, ret, pc, final_state, source, parsed>>

\* Lines 85-92 and 101: the body completed an iteration.
LoopCommit ==
    /\ pc = "running"
    /\ stack # <<>>
    /\ ret.outcome.kind = "Completed"
    /\ EndPass(CommitIteration(Top.state, ret.state), ret.outcome.remaining)

\* Lines 93-96: the body could not be evaluated.
LoopAbandon ==
    /\ pc = "running"
    /\ stack # <<>>
    /\ ret.outcome.kind \in {"ReachedRuntimeValue", "RuntimeError", "OutOfSteps"}
    /\ ReturnFromInner(AbandonIteration(Top.state, ret.state), ret.outcome)

\* Lines 104-108: the driver loop has ended.
InnerReturn ==
    /\ pc = "running"
    /\ ret = NoRet
    /\ stack # <<>>
    /\ ~WhileCond(Top)
    /\ ReturnFromInner(Top.state, ExitOutcome(Top.steps_left))

\* execute, lines 38-39: the outermost invocation has returned.
ExecuteReturn ==
    /\ pc = "running"
    /\ stack = <<>>
    /\ ret # NoRet
    /\ final_state' = ret.state
    /\ pc' = "done"
    /\ UNCHANGED <<instrs, steps, stack, ret, source, parsed>>

-----------------------------------------------------------------------------
(* The run-time meaning of the IR, which the residual program has once it  *)
(* is compiled: the instruction table of the specification, run on a       *)
(* finite tape, with an out-of-range pointer move as the run-time error.   *)
(* `fuel` bounds the run: every instruction executed and every test of a   *)
(* loop's condition takes one unit, and a run that needs more is reported  *)
(* as "diverged".  Read takes the next byte of `input`, read cyclically.   *)

\* The input streams the runs are tried on.
Inputs == { <<0>>, <<1>>, <<1, 0>> }

PlainStart(cells, cell_ptr, outputs, fuel) ==
    [cells |-> cells, cell_ptr |-> cell_ptr, outputs |-> outputs,
     reads |-> 0, high |-> cell_ptr, fuel |-> fuel, status |-> "running"]

RECURSIVE PlainSeq(_, _, _, _)
\* The run of is[i..] from r; r.status stays "running" when it gets through.
PlainSeq(is, i, r, input) ==
    IF i > Len(is) THEN r
    ELSE IF r.fuel = 0 THEN [r EXCEPT !.status = "diverged"]
    ELSE LET instr == is[i]
             r1 == [r EXCEPT !.fuel = @ - 1]
             new_cell_ptr == r.cell_ptr + instr.amount
         IN
         CASE instr.op = "Increment" ->
                PlainSeq(is, i + 1,
                         [r1 EXCEPT !.cells[r.cell_ptr + 1] =
                                        (@ + instr.amount) % CellModulus],
                         input)
           [] instr.op = "Set" ->
                PlainSeq(is, i + 1,
                         [r1 EXCEPT !.cells[r.cell_ptr + 1] = instr.amount], input)
           [] instr.op = "PointerIncrement" ->
                IF new_cell_ptr < 0 \/ new_cell_ptr >= Len(r.cells)
                THEN [r1 EXCEPT !.status = "error"]
                ELSE PlainSeq(is, i + 1,
                              [r1 EXCEPT !.cell_ptr = new_cell_ptr,
                                         !.high = Max(@, new_cell_ptr)],
                              input)
           [] instr.op = "Write" ->
                PlainSeq(is, i + 1,
                         [r1 EXCEPT !.outputs = Append(@, r.cells[r.cell_ptr + 1])],
                         input)
           [] instr.op = "Read" ->
                PlainSeq(is, i + 1,
                         [r1 EXCEPT !.cells[r.cell_ptr + 1] =
                                        input[(r.reads % Len(input)) + 1],
                                    !.reads = @ + 1],
                         input)
           [] instr.op = "Loop" ->
                IF r.cells[r.cell_ptr + 1] = 0
                THEN PlainSeq(is, i + 1, r1, input)
                ELSE LET after == PlainSeq(instr.body, 1, r1, input) IN
                     IF after.status = "running"
                     THEN PlainSeq(is, i, after, input)
                     ELSE after

\* The whole run: "halted", "error" or "diverged".
PlainRun(is, cells, cell_ptr, outputs, fuel, input) ==
    LET r == PlainSeq(is, 1, PlainStart(cells, cell_ptr, outputs, fuel), input) IN
    IF r.status = "running" THEN [r EXCEPT !.status = "halted"] ELSE r

\* What a run shows: how it ended and, unless it diverged, what it wrote,
\* what it read and the tape and pointer it ended with.
Observed(r) ==
    IF r.status = "diverged" THEN << "diverged" >>
    ELSE << r.status, r.outputs, r.cells, r.cell_ptr, r.reads >>

-----------------------------------------------------------------------------
(* bfir.rs: the parser.  A source text is a sequence of characters, indexed *)
(* from 0 as in the code (source.chars()); "x" stands for any character    *)
(* that is not one of the eight commands.                                  *)

Chars == { "+", "-", ">", "<", ",", ".", "[", "]", "x" }

\* The source texts of n characters.
SourcesOfLen(n) == [1..n -> Chars]

\* Result<_, String>: Ok carries the instructions (parse_between) or an
\* index (find_close); Err carries which of the two messages and the index
\* that the message names.
Ok(is, index) == [ok |-> TRUE, instrs |-> is, kind |-> "Ok", index |-> index]
Err(kind, index) == [ok |-> FALSE, instrs |-> <<>>, kind |-> kind, index |-> index]

\* chars[index]
CharAt(src, index) == src[index + 1]

\* Lines 68-73: the six commands that map to one instruction each.
SimpleCommands == { "+", "-", ">", "<", ",", "." }
CharInstr(c) ==
    CASE c = "+" -> Increment(1)
      [] c = "-" -> Increment(-1)
      [] c = ">" -> PointerIncrement(1)
      [] c = "<" -> PointerIncrement(-1)
      [] c = "," -> Read
      [] c = "." -> Write

\* Lines 103-107: find_close's depth counter.
DepthAfter(nesting_depth, c) ==
    IF c = "[" THEN nesting_depth + 1
    ELSE IF c = "]" THEN nesting_depth - 1
    ELSE nesting_depth

\* NoMatchingClose naming where the scan ended.
NoMatchingClose_ScanEnd(src, open_index) == Err("NoMatchingClose", Len(src))

\* Line 114: "Could not find matching ] for [ at index {}."
NoMatchingClose(src, open_index) == Err("NoMatchingClose", open_index)

\* Line 82: "Unmatched ] at index {}."
UnmatchedClose(src, index) == Err("UnmatchedClose", index)

RECURSIVE FindCloseFrom(_, _, _, _)
\* Lines 98-112: the scan, at `index` with the depth counted so far.
FindCloseFrom(src, open_index, index, nesting_depth) ==
    IF index >= Len(src) THEN NoMatchingClose(src, open_index)
    ELSE LET depth == DepthAfter(nesting_depth, CharAt(src, index)) IN
         IF depth = 0 THEN Ok(<<>>, index)
         ELSE FindCloseFrom(src, open_index, index + 1, depth)

\* Lines 94-115.  The positions before open_index are skipped (line 99).
find_close(src, open_index) == FindCloseFrom(src, open_index, open_index, 0)

\* IndexAfterLoop without the jump to the closing bracket.
IndexAfterLoop_NoJump(index, close_index) == index

\* Line 79: where the scan resumes once a loop has been pushed (line 87
\* then steps past the bracket).
IndexAfterLoop(index, close_index) == close_index

RECURSIVE ParseFrom(_, _, _, _)
\* Lines 66-90: the loop of parse_between, at `index` with the instructions
\* pushed so far.
ParseFrom(src, index, end, instructions) ==
    IF ~(index < end) THEN Ok(instructions, 0)
    ELSE LET c == CharAt(src, index) IN
         IF c \in SimpleCommands
         THEN ParseFrom(src, index + 1, end, Append(instructions, CharInstr(c)))
         ELSE IF c = "["
         THEN LET close == find_close(src, index) IN
              IF ~close.ok THEN close
              ELSE LET loop_body == ParseFrom(src, index + 1, close.index, <<>>) IN
                   IF ~loop_body.ok THEN loop_body
                   ELSE ParseFrom(src, IndexAfterLoop(index, close.index) + 1, end,
                                  Append(instructions, Loop(loop_body.instrs)))
         ELSE IF c = "]"
         THEN UnmatchedClose(src, index)
         ELSE ParseFrom(src, index + 1, end, instructions)

\* Lines 58-91.
parse_between(src, start, end) == ParseFrom(src, start, end, <<>>)

\* Lines 52-54.
parse(src) == parse_between(src, 0, Len(src))

NoState == [instr_ptr |-> 0, cells |-> <<>>, cell_ptr |-> 0, outputs |-> <<>>]
NotParsed == [ok |-> FALSE, instrs |-> <<>>, kind |-> "NotParsed", index |-> 0]

\* execute has been called with some program of at most MaxNodes
\* instructions and some budget.
Init ==
    /\ \E n \in 0..MaxNodes :
          \E shape \in ShapesOfSize(n, MaxDepth) :
              \E leaves \in [1..Holes(shape) -> Leaves] :
                  instrs = Fill(shape, 0, leaves)
    /\ steps \in 0..MaxSteps
    /\ stack = << Frame(instrs, InitialState(instrs), steps) >>
    /\ ret = NoRet
    /\ pc = "running"
    /\ final_state = NoState
    /\ source = <<>>
    /\ parsed = NotParsed

Next ==
    \/ ExecIncrement
    \/ ExecSet
    \/ ExecPointerIncrement
    \/ PointerRuntimeError
    \/ ExecWrite
    \/ ExecRead
    \/ LoopSkip
    \/ LoopEnter
    \/ LoopCommit
    \/ LoopAbandon
    \/ InnerReturn
    \/ ExecuteReturn

Spec == Init /\ [][Next]_vars

\* execute is a sequential computation: it keeps taking steps until it
\* returns.
SpecFair == Spec /\ WF_vars(Next)

\* The two loops that count the current cell to zero, one step at a time.
ZeroingLoops == { Loop(<< Increment(-1) >>), Loop(<< Increment(1) >>) }

\* What runs before the instruction under test: nothing, or `+.>>-<`, which
\* leaves a written byte, the pointer on cell 1 and a non-zero cell on
\* either side of it.
ZeroingContexts ==
    { <<>>,
      << Increment(1), Write, PointerIncrement(1), PointerIncrement(1),
         Increment(-1), PointerIncrement(-1) >> }

\* Passes of a zeroing loop's body from the cell value v: the additions of
\* `amount` that take it to zero, 8 bits wide.
Iterations(v, amount) == IF amount = -1 THEN v ELSE (CellModulus - v) % CellModulus

\* The steps execute needs to get through a program that ends in `last`
\* after Set(v): one per instruction before it, and for a zeroing loop two
\* per iteration and one to step over it.
StepsToFinish(is, v, last) ==
    (Len(is) - 1)
    + (IF last \in ZeroingLoops
       THEN 2 * Iterations(v, last.body[1].amount) + 1
       ELSE 1)

\* execute has been called with a program that gives the current cell one
\* of its 256 values and then runs a zeroing loop, or Set(0) in its place,
\* with a budget two short or one short of what that needs (two short, the
\* last iteration's body runs out of steps; one short, the loop is left
\* standing on its zero cell), exactly that, or MaxZeroingSteps.
InitZeroing ==
    /\ \E context \in ZeroingContexts, v \in 0..(CellModulus - 1),
          last \in ZeroingLoops \cup { Set(0) } :
          /\ instrs = context \o << Set(v), last >>
          /\ steps \in { StepsToFinish(instrs, v, last) - 2,
                         StepsToFinish(instrs, v, last) - 1,
                         StepsToFinish(instrs, v, last),
                         MaxZeroingSteps }
    /\ stack = << Frame(instrs, InitialState(instrs), steps) >>
    /\ ret = NoRet
    /\ pc = "running"
    /\ final_state = NoState
    /\ source = <<>>
    /\ parsed = NotParsed

\* What execute_inner can meet in such a program: it has no Read, and none
\* of its pointer moves leaves the tape.
NextZeroing ==
    \/ ExecIncrement
    \/ ExecSet
    \/ ExecPointerIncrement
    \/ ExecWrite
    \/ LoopSkip
    \/ LoopEnter
    \/ LoopCommit
    \/ LoopAbandon
    \/ InnerReturn
    \/ ExecuteReturn

SpecZeroing == InitZeroing /\ [][NextZeroing]_vars

\* parse has been called with some source text.
InitParse ==
    /\ \E n \in 0..MaxSrcLen : source \in SourcesOfLen(n)
    /\ parsed = NotParsed
    /\ pc = "parsing"
    /\ instrs = <<>>
    /\ steps = 0
    /\ stack = <<>>
    /\ ret = NoRet
    /\ final_state = NoState

\* parse returns.
ParseReturn ==
    /\ pc = "parsing"
    /\ parsed' = parse(source)
    /\ pc' = "parsed"
    /\ UNCHANGED <<instrs, steps, stack, ret, final_state, source>>

NextParse == ParseReturn

SpecParse == InitParse /\ [][NextParse]_vars

-----------------------------------------------------------------------------
(* Properties of execute.                                                  *)

Residual == SubSeq(instrs, final_state.instr_ptr + 1, Len(instrs))

\* C1: once execute(p, N) has returned state s with s.instr_ptr = k, the
\* plain run of p[k..] from s.cells and s.cell_ptr, its output appended to
\* s.outputs, shows what the plain run of all of p from an all-zero tape of
\* the same length shows: whenever the whole run ends within MaxFuel steps
\* the residual run ends the same way with the same outputs, tape and
\* pointer, and whenever the residual run ends within MaxFuel steps the
\* whole run ends the same way within N more steps; so one diverges exactly
\* when the other does.
C1_ResidualEquivalent ==
    pc = "done" =>
        \A input \in Inputs :
            LET s == final_state
                R == PlainRun(Residual, s.cells, s.cell_ptr, s.outputs, MaxFuel, input)
                W == PlainRun(instrs, Zeros(Len(s.cells)), 0, <<>>,
                              MaxFuel + steps, input)
                WithinMaxFuel == W.status # "diverged" /\ W.fuel >= steps
            IN /\ WithinMaxFuel => Observed(R) = Observed(W)
               /\ R.status # "diverged" => Observed(W) = Observed(R)

\* execute stopped at a loop it could not finish in the middle of the
\* program, after it had written something, and the residual program runs
\* to its end.
C1_Witness ==
    /\ pc = "done"
    /\ final_state.instr_ptr > 0
    /\ final_state.instr_ptr < Len(instrs)
    /\ instrs[final_state.instr_ptr + 1].op = "Loop"
    /\ final_state.outputs # <<>>
    /\ CurrentCell(final_state) # 0
    /\ \E input \in Inputs :
          PlainRun(Residual, final_state.cells, final_state.cell_ptr,
                   final_state.outputs, MaxFuel, input).status = "halted"

StateInBounds(state, is) ==
    /\ state.instr_ptr <= Len(is)
    /\ 0 <= state.cell_ptr
    /\ state.cell_ptr <= Len(state.cells)

\* C2: the state execute returns has instr_ptr <= len(p) and
\* 0 <= cell_ptr <= len(cells), and so has the state of every live
\* invocation of execute_inner and every state one returns, its instr_ptr
\* measured against the instructions that invocation interprets.
C2_PointersInBounds ==
    /\ \A i \in 1..Len(stack) : StateInBounds(stack[i].state, stack[i].instrs)
    /\ (ret # NoRet /\ stack # <<>>) =>
           StateInBounds(ret.state, CurrentInstr(Top).body)
    /\ (ret # NoRet /\ stack = <<>>) => StateInBounds(ret.state, instrs)
    /\ pc = "done" => StateInBounds(final_state, instrs)

\* Two loops deep, with the pointer moved off cell 0 and the innermost
\* body at its end.
C2_Witness ==
    /\ Len(stack) = 3
    /\ Top.state.cell_ptr >= 1
    /\ Top.state.instr_ptr = Len(Top.instrs)

\* A loop body has returned to its caller with an outcome other than
\* Completed.
BodyFailed ==
    /\ pc = "running"
    /\ stack # <<>>
    /\ ret # NoRet
    /\ ret.outcome.kind # "Completed"

\* C3: when the body of a loop entered on a non-zero cell ends with an
\* outcome other than Completed, the enclosing invocation returns that
\* outcome with its own state untouched: cells, cell_ptr and outputs as
\* they were when the iteration started and instr_ptr at the Loop.  The
\* state of an enclosing invocation does not change while a body runs, so
\* what it holds is what earlier, completed iterations committed.
C3_UnfinishedIterationDiscarded ==
    /\ [][BodyFailed =>
            /\ CurrentInstr(Top).op = "Loop"
            /\ CurrentCell(Top.state) # 0
            /\ ret'.state = Top.state
            /\ ret'.outcome = ret.outcome
            /\ stack' = Below]_vars
    /\ [][\A i \in 1..(Len(stack) - 1) : i <= Len(stack') => stack'[i] = stack[i]]_vars
    /\ [][Len(stack') > Len(stack) =>
            /\ Below \o <<Top>> = SubSeq(stack', 1, Len(stack))
            /\ stack'[Len(stack')].state.cells = Top.state.cells
            /\ stack'[Len(stack')].state.cell_ptr = Top.state.cell_ptr
            /\ stack'[Len(stack')].state.outputs = Top.state.outputs]_vars

\* Set(2) [-]: the first iteration was committed (the cell is 1), the second
\* ran out of steps after decrementing its copy to 0.
C3_Witness ==
    /\ BodyFailed
    /\ Len(stack) = 1
    /\ ret.outcome.kind = "OutOfSteps"
    /\ instrs = << Set(2), Loop(<< Increment(-1) >>) >>
    /\ Top.state.cells = <<1>>
    /\ ret.state.cells = <<0>>

\* The outermost invocation is about to run a Read, or a PointerIncrement
\* whose target is off the tape, with budget left.
TopLevelStop ==
    /\ pc = "running"
    /\ ret = NoRet
    /\ Len(stack) = 1
    /\ Top.steps_left > 0
    /\ Top.state.instr_ptr < Len(Top.instrs)
    /\ LET instr == CurrentInstr(Top)
           target == Top.state.cell_ptr + instr.amount IN
       \/ instr.op = "Read"
       \/ instr.op = "PointerIncrement"
          /\ (target < 0 \/ target >= Len(Top.state.cells))

\* C4: at a top-level Read, or a top-level PointerIncrement whose target is
\* negative or >= the tape length, with budget left, execute_inner returns
\* at once with the state as it was before the instruction, instr_ptr
\* pointing at it, and execute returns that state: it does not fail.
C4_StopsAtReadOrRuntimeError ==
    /\ [][TopLevelStop =>
            /\ stack' = <<>>
            /\ ret'.state = Top.state
            /\ ret'.outcome = (IF CurrentInstr(Top).op = "Read"
                               THEN ReachedRuntimeValue ELSE RuntimeError)
            /\ pc' = "running"]_vars
    /\ [][(pc = "running" /\ stack = <<>> /\ ret # NoRet) =>
            /\ pc' = "done"
            /\ final_state' = ret.state]_vars

\* A move to the right off the tape, met at top level after other
\* instructions had run.
C4_Witness ==
    /\ pc = "done"
    /\ final_state.instr_ptr > 0
    /\ final_state.instr_ptr < Len(instrs)
    /\ instrs[final_state.instr_ptr + 1] = PointerIncrement(1)
    /\ final_state.cell_ptr + 1 >= Len(final_state.cells)
    /\ ret.outcome.kind = "RuntimeError"

Min(a, b) == IF a <= b THEN a ELSE b

\* The program has no loop and no Read, and no prefix of its pointer moves
\* goes left of cell 0.
RECURSIVE StraightLineInRange(_, _, _)
StraightLineInRange(is, i, offset) ==
    IF i > Len(is) THEN TRUE
    ELSE /\ is[i].op \notin {"Loop", "Read"}
         /\ LET o == IF is[i].op = "PointerIncrement"
                     THEN offset + is[i].amount ELSE offset IN
            o >= 0 /\ StraightLineInRange(is, i + 1, o)

\* An invocation is about to execute an instruction to its end, or to step
\* over a loop.
PlainPass ==
    /\ pc = "running"
    /\ ret = NoRet
    /\ stack # <<>>
    /\ Top.steps_left > 0
    /\ Top.state.instr_ptr < Len(Top.instrs)
    /\ LET instr == CurrentInstr(Top)
           target == Top.state.cell_ptr + instr.amount IN
       \/ instr.op \in {"Increment", "Set", "Write"}
       \/ instr.op = "PointerIncrement"
          /\ target >= 0 /\ target < Len(Top.state.cells)
       \/ instr.op = "Loop" /\ CurrentCell(Top.state) = 0

\* A loop body has handed a completed iteration back to its caller.
BodyCompleted ==
    /\ pc = "running"
    /\ stack # <<>>
    /\ ret.outcome.kind = "Completed"

\* C8: an executed Increment, Set, PointerIncrement or Write, and a Loop
\* stepped over on a zero cell, take exactly one step off the budget; a loop
\* body starts with the budget its caller has left, and a committed
\* iteration takes off what the body consumed plus one, which needs the
\* budget at entry to be at least that.  So a program without loops or
\* Reads that stays on the tape returns instr_ptr = min(N, L).
C8_StepAccounting ==
    /\ [][PlainPass =>
            /\ Len(stack') = Len(stack)
            /\ stack'[Len(stack')].steps_left = Top.steps_left - 1
            /\ stack'[Len(stack')].state.instr_ptr = Top.state.instr_ptr + 1
            /\ pc' = "running"]_vars
    /\ [][Len(stack') > Len(stack) =>
            stack'[Len(stack')].steps_left = Top.steps_left]_vars
    /\ [][BodyCompleted =>
            LET consumed == Top.steps_left - ret.outcome.remaining IN
            /\ consumed >= 0
            /\ Top.steps_left >= consumed + 1
            /\ Len(stack') = Len(stack)
            /\ stack'[Len(stack')].steps_left = Top.steps_left - (consumed + 1)
            /\ pc' = "running"]_vars
    /\ [](pc = "done" /\ StraightLineInRange(instrs, 1, 0) =>
            final_state.instr_ptr = Min(steps, Len(instrs)))

\* -[++] with a budget of 5: the iteration, whose body consumed two steps,
\* has been committed and one step is left.
C8_Witness ==
    /\ pc = "running"
    /\ ret = NoRet
    /\ Len(stack) = 1
    /\ Top.steps_left = 1
    /\ steps = 5
    /\ instrs = << Increment(-1), Loop(<< Increment(1), Increment(1) >>) >>
    /\ Top.state.instr_ptr = 1
    /\ Top.state.cells = <<1>>

\* C9: execute returns for every program and budget.  Each pass through the
\* driver loop of an invocation, at any depth, leaves it with strictly
\* fewer steps than it had, and ++[] run with a budget of two or more
\* returns pointing at the loop, with the cell at 2.
C9_Terminates ==
    /\ <>(pc = "done")
    /\ [][(stack # <<>> /\ Len(stack') = Len(stack) /\ stack' # stack) =>
            stack'[Len(stack')].steps_left < Top.steps_left]_vars
    /\ [](( /\ pc = "done"
            /\ instrs = << Increment(1), Increment(1), Loop(<<>>) >>
            /\ steps >= 2 ) =>
          final_state = [instr_ptr |-> 2, cells |-> <<2>>,
                         cell_ptr |-> 0, outputs |-> <<>>])

\* execute has returned from a loop that never ends: a loop in a loop, with
\* nothing in it that changes the cell.
C9_Witness ==
    /\ pc = "done"
    /\ steps = MaxSteps
    /\ instrs = << Increment(1), Loop(<< Loop(<<>>) >>) >>
    /\ final_state.instr_ptr = 1

\* C10: `steps_left -= 1` never underflows: execute never dies of it, and a
\* Completed outcome always carries at least one remaining step.
C10_NoUnderflow ==
    /\ pc # "panicked"
    /\ ret.outcome.kind = "Completed" => ret.outcome.remaining >= 1

\* A loop that is the first instruction of a loop body has completed an
\* iteration with its last step but one.
C10_Witness ==
    /\ Len(stack) = 2
    /\ Top.state.instr_ptr = 0
    /\ Top.instrs # <<>>
    /\ CurrentInstr(Top).op = "Loop"
    /\ ret.outcome = Completed(1)

\* A tape no run of MaxFuel steps can leave on the right.
WideTape == Zeros(MaxFuel + 1)

\* C7: a run that ends without moving left of cell 0 never points at a
\* cell beyond highest_cell_index(p), so on the tape execute allocates the
\* interpreter never meets a move off its right end in such a program.
C7_BoundsSound ==
    \A input \in Inputs :
        PlainRun(instrs, WideTape, 0, <<>>, MaxFuel, input).status = "halted" =>
            /\ PlainRun(instrs, WideTape, 0, <<>>, MaxFuel, input).high
                   <= highest_cell_index(instrs)
            /\ ~(/\ AtInstr("PointerIncrement")
                 /\ Top.state.cell_ptr + CurrentInstr(Top).amount
                        >= Len(Top.state.cells))

RECURSIVE AfterStraightLine(_, _, _)
\* The state in which is[i..], instructions without Loop or Read that stay
\* on the tape, leave `state`.
AfterStraightLine(is, i, state) ==
    IF i > Len(is) THEN [state EXCEPT !.instr_ptr = Len(is)]
    ELSE LET instr == is[i] IN
         AfterStraightLine(is, i + 1,
             CASE instr.op = "Increment" ->
                    [state EXCEPT !.cells[state.cell_ptr + 1] =
                                      wrapping_add(@, instr.amount)]
               [] instr.op = "Set" ->
                    [state EXCEPT !.cells[state.cell_ptr + 1] = instr.amount]
               [] instr.op = "PointerIncrement" ->
                    [state EXCEPT !.cell_ptr = @ + instr.amount]
               [] instr.op = "Write" ->
                    [state EXCEPT !.outputs = Append(@, CurrentCell(state))])

\* The program's last instruction, the value its Set gave the current cell
\* before it, and the state execute_inner meets that last instruction in.
LastInstr == instrs[Len(instrs)]
StartValue == instrs[Len(instrs) - 1].amount
BeforeLast ==
    AfterStraightLine(SubSeq(instrs, 1, Len(instrs) - 1), 1, InitialState(instrs))

\* The program with Set(0) in the place of its last instruction.
SetZeroInPlace == [instrs EXCEPT ![Len(instrs)] = Set(0)]

\* C11: cells being 8 bits wide and wrapping, Loop([Increment(-1)]) and
\* Loop([Increment(1)]) met on any of the 256 values of the current cell,
\* with a budget that is enough to finish, leave the current cell at 0,
\* every other cell, cell_ptr and outputs as they were and instr_ptr past
\* the loop: the state Set(0) in the loop's place leaves.  Two steps for
\* each iteration and one to step over the loop are enough, and one step
\* fewer is not.
C11_ZeroingLoopIsSetZero ==
    (pc = "done" /\ LastInstr \in ZeroingLoops \cup { Set(0) }) =>
        IF steps >= StepsToFinish(instrs, StartValue, LastInstr)
        THEN /\ CurrentCell(final_state) = 0
             /\ final_state.cells =
                    [BeforeLast.cells EXCEPT ![BeforeLast.cell_ptr + 1] = 0]
             /\ final_state.cell_ptr = BeforeLast.cell_ptr
             /\ final_state.outputs = BeforeLast.outputs
             /\ final_state.instr_ptr = Len(instrs)
             /\ final_state = AfterStraightLine(SetZeroInPlace, 1, InitialState(instrs))
        ELSE final_state.instr_ptr < Len(instrs)

\* `+.>>-<` Set(1) [+] with exactly the steps it needs: the loop has taken
\* the cell from 1 up through 255 to 0, between cells holding 1 and 255.
C11_Witness ==
    /\ pc = "done"
    /\ LastInstr = Loop(<< Increment(1) >>)
    /\ StartValue = 1
    /\ Len(instrs) = 8
    /\ steps = StepsToFinish(instrs, StartValue, LastInstr)
    /\ steps = 518
    /\ final_state = [instr_ptr |-> 8, cells |-> <<1, 0, 255>>,
                      cell_ptr |-> 1, outputs |-> <<1>>]


-----------------------------------------------------------------------------
(* Properties of parse.                                                    *)

RECURSIVE FirstUnmatchedFrom(_, _, _)
\* The index of the first bracket of src[index..] without a partner, -1 when
\* there is none; `open` holds the indices of the brackets still open.
FirstUnmatchedFrom(src, index, open) ==
    IF index >= Len(src)
    THEN (IF open = <<>> THEN -1 ELSE open[1])
    ELSE LET c == CharAt(src, index) IN
         IF c = "[" THEN FirstUnmatchedFrom(src, index + 1, Append(open, index))
         ELSE IF c = "]"
         THEN (IF open = <<>> THEN index
               ELSE FirstUnmatchedFrom(src, index + 1, SubSeq(open, 1, Len(open) - 1)))
         ELSE FirstUnmatchedFrom(src, index + 1, open)

FirstUnmatched(src) == FirstUnmatchedFrom(src, 0, <<>>)

\* C5: parse fails exactly when some bracket of the source has no partner,
\* and the index in the message is the character index of the first such
\* bracket: "Unmatched ]" for a closing one, "Could not find matching ]"
\* for an opening one.
C5_ErrorNamesFirstUnmatched ==
    pc = "parsed" =>
        /\ ~parsed.ok <=> FirstUnmatched(source) # -1
        /\ ~parsed.ok =>
              /\ parsed.index = FirstUnmatched(source)
              /\ parsed.kind = (IF CharAt(source, parsed.index) = "]"
                                THEN "UnmatchedClose" ELSE "NoMatchingClose")

\* An unclosed bracket after a comment character and a complete loop.
C5_Witness ==
    /\ pc = "parsed"
    /\ parsed = Err("NoMatchingClose", 3)
    /\ source[1] = "x"
    /\ Len(source) = 5

RECURSIVE Render(_)
\* The BF text of an instruction sequence; "?" for what BF cannot write.
Render(is) ==
    IF is = <<>> THEN <<>>
    ELSE LET i == is[1] IN
         (CASE i = Increment(1) -> << "+" >>
            [] i = Increment(-1) -> << "-" >>
            [] i = PointerIncrement(1) -> << ">" >>
            [] i = PointerIncrement(-1) -> << "<" >>
            [] i = Read -> << "," >>
            [] i = Write -> << "." >>
            [] i.op = "Loop" -> << "[" >> \o Render(i.body) \o << "]" >>
            [] OTHER -> << "?" >>)
         \o Render(Tail(is))

IsCommand(c) == c \in { "+", "-", ">", "<", ",", ".", "[", "]" }

RECURSIVE OnlyBfInstructions(_)
OnlyBfInstructions(is) ==
    \A i \in 1..Len(is) :
        /\ is[i].op \in {"Increment", "PointerIncrement", "Read", "Write", "Loop"}
        /\ OnlyBfInstructions(is[i].body)

\* C6: parse accepts every source whose brackets are balanced, and what it
\* returns, written back as BF text, is the source without the characters
\* that are not commands; it holds no Set and no MultiplyMove.
C6_ParsesBalancedSource ==
    (pc = "parsed" /\ FirstUnmatched(source) = -1) =>
        /\ parsed.ok
        /\ Render(parsed.instrs) = SelectSeq(source, IsCommand)
        /\ OnlyBfInstructions(parsed.instrs)

\* A loop in a loop, with a comment character inside.
C6_Witness ==
    /\ pc = "parsed"
    /\ parsed = Ok(<< Loop(<< Loop(<<>>) >>) >>, 0)
    /\ source = << "[", "[", "x", "]", "]" >>

====
